---- MODULE Spec2Model ----
(***************************************************************************)
(* Model of one ClusterIpc router instance (node-cluster-ipc): target      *)
(* selection (round-robin cursor + sticky map), fan-out, and the           *)
(* request/reply tracker with its deadline timers.  The instance runs      *)
(* either in the primary (parent) role over the live worker set of the     *)
(* cluster module, or in the worker (child) role with one parent handle.   *)
(***************************************************************************)
EXTENDS Integers, Sequences, FiniteSets, TLC

\* ------------------------------------------------------------------ bounds
MaxWorkers == 2     \* worker ids ever forked are 1..MaxWorkers
MaxReq     == 2     \* request ids that request() may issue
MaxHeld    == 1     \* reply callbacks the consumer keeps for a later call
MaxCalls   == 6     \* send() calls followed by SpecRR
RRWorkers  == 3     \* size of the largest fixed worker set of SpecRR
MaxHandoffs == 3    \* hand-offs after which SpecHandoffs makes no more send() calls

\* ------------------------------------------------------- values and inputs
Channels  == {"c1", "c2"}
Payloads  == {"p1", "p2"}
ReqIds    == 1..MaxReq
WorkerIds == 1..MaxWorkers

Parent    == 0            \* the single handle a worker process sends on
Undefined == "<undefined>"   \* an omitted workerId argument

NoErr        == "none"
NoWorkers    == "No workers available"
PublishRole  == "Method \"publish\" can only be called from the primary process"
TimeoutErr   == "Request timeout"
TypeErr      == "TypeError: Cannot read properties of undefined (reading 'id')"
TransportErr == "transport error"

\* decimal rendering of a worker id, as JS renders a number used as a key
Digits == <<"1", "2", "3", "4", "5", "6", "7", "8", "9">>

\* String(id) of workerMap.get(String(id)) / workerMap.set(String(id), ..)
StringOf(id) == IF id = Undefined THEN "undefined" ELSE id

\* the workerId arguments callers pass: omitted, a worker id, a custom key
Hints == {Undefined, "foo", "undefined"} \cup {Digits[w] : w \in WorkerIds}

\* IpcMessage; requestId 0 and isReply FALSE stand for an absent field
IpcMessage(channel, data, requestId, isReply) ==
  [channel |-> channel, data |-> data, requestId |-> requestId, isReply |-> isReply]

Messages == [channel : Channels, data : Payloads, requestId : 0..MaxReq, isReply : BOOLEAN]

\* the argument of the constructor: none, or an options object whose
\* requestTimeout is a number of milliseconds or is missing (NoValue)
NoValue == -1

NoArgument == [given |-> FALSE, requestTimeout |-> NoValue]

OptionArgs ==
  {NoArgument} \cup {[given |-> TRUE, requestTimeout |-> v] : v \in {NoValue, 1000, 5000}}

\* constructor(private options = { requestTimeout: 5000 }): the default
\* parameter value replaces a missing argument, never a missing property
constructor(argument) ==
  IF argument.given
  THEN [requestTimeout |-> argument.requestTimeout]
  ELSE [requestTimeout |-> 5000]

\* setTimeout(callback, delay): a delay that is no number of at least one
\* millisecond (undefined included) is replaced by 1
setTimeout(delay) == IF delay < 1 THEN 1 ELSE delay

\* ------------------------------------------------------------------- state
VARIABLES
  isPrimary,        \* role of the process, fixed at construction
  workers,          \* cluster.workers: identities of the live workers
  forked,           \* number of workers forked so far (ids are never reused)
  listening,        \* workers carrying this router's 'message' listener
  onlineBefore,     \* workers that were already online at construction
  argument,         \* the argument the constructor was called with
  options,          \* this.options
  workerIndex,      \* round-robin cursor
  workerMap,        \* sticky map: String(key) -> worker id
  pendingRequests,  \* request ids that have an entry in the pending table
  timers,           \* request ids whose deadline timer is armed
  promise,          \* per request id: state, value and number of settle calls
  replyFns,         \* reply callbacks handed to the consumer and kept by it
  op,               \* the operation performed by the last step
  out,              \* worker.send() calls made by the last step
  err,              \* error thrown to the caller by the last step
  emitted,          \* notifications emitted by the last step
  delay,            \* delay of the timer armed by the last step, 0 if none
  warned,           \* console.warn() calls made by the last step
  trace,            \* history: targets of the send() calls so far (SpecRR),
                    \* the hand-offs so far (SpecHandoffs)
  chosen            \* history: per explicit key, the child first selected
                    \* for it that has been live ever since (SpecRouting)

vars == <<isPrimary, workers, forked, listening, onlineBefore, argument,
          options, workerIndex, workerMap, pendingRequests, timers, promise,
          replyFns, op, out, err, emitted, delay, warned, trace, chosen>>

routing  == <<workerIndex, workerMap>>
registry == <<isPrimary, workers, forked, listening, onlineBefore, argument, options>>
tracker  == <<pendingRequests, timers, promise>>

\* ----------------------------------------------------------------- helpers
RECURSIVE SortedSeq(_)
\* Object.values(cluster.workers): integer keys enumerate in ascending order
SortedSeq(S) ==
  IF S = {} THEN <<>>
  ELSE LET m == CHOOSE x \in S : \A y \in S : x <= y
       IN <<m>> \o SortedSeq(S \ {m})

Values(ws) == SortedSeq(ws)

\* (this.workers)[id]: the live worker whose key is id, 0 when there is none
Lookup(ws, key) ==
  IF \E w \in ws : Digits[w] = key
  THEN CHOOSE w \in ws : Digits[w] = key
  ELSE 0

MapSet(m, k, v) == [x \in DOMAIN m \cup {k} |-> IF x = k THEN v ELSE m[x]]

\* the last operation: its name, the workerId argument it was given, the
\* requestId and isReply of the envelope it built or received, and the
\* worker the envelope came from (handleMessage) or the callback is bound to
Op(name, id, requestId, isReply, worker) ==
  [name |-> name, id |-> id, requestId |-> requestId, isReply |-> isReply, worker |-> worker]

EmptyMap == [k \in {} |-> 0]

\* a promise: its state, its value or rejection reason, and how many times
\* its resolve/reject functions have been invoked
NoPromise == [state |-> "none", value |-> "none", calls |-> 0]

NewPromise == [state |-> "pending", value |-> "none", calls |-> 0]

\* resolve(value) / reject(reason): only the first call settles a promise
Settle(p, state, value) ==
  IF p.state = "pending"
  THEN [state |-> state, value |-> value, calls |-> p.calls + 1]
  ELSE [p EXCEPT !.calls = @ + 1]

Tracker == [pendingRequests |-> pendingRequests, timers |-> timers, promise |-> promise]

\* -------------------------------------------------------- target selection
\* a selection result that leaves the cursor and the sticky map alone
Selected(worker, error, idx, map) ==
  [worker |-> worker, error |-> error, workerIndex |-> idx, workerMap |-> map]

\* a cursor that never moves
roundRobinStuck(list, idx, map, id) ==
  IF idx >= Len(list)
  THEN Selected(0, TypeErr, idx, map)
  ELSE Selected(list[idx + 1], NoErr, idx, MapSet(map, StringOf(id), list[idx + 1]))

\* the round-robin tail of getWorker: workers[workerIndex], then the cursor
\* advances modulo the length, then workerMap.set(String(id), worker.id).
\* When workers[workerIndex] is undefined, reading worker.id throws after
\* the cursor has advanced and before the sticky map is written.
roundRobin(list, idx, map, id) ==
  IF idx >= Len(list)
  THEN Selected(0, TypeErr, (idx + 1) % Len(list), map)
  ELSE Selected(list[idx + 1], NoErr, (idx + 1) % Len(list),
                MapSet(map, StringOf(id), list[idx + 1]))

\* a selection that records the explicit identity it was satisfied by
getWorkerRecordsHit(ws, idx, map, id) ==
  IF Len(Values(ws)) = 0
  THEN Selected(0, NoWorkers, idx, map)
  ELSE IF id # Undefined /\ Lookup(ws, id) # 0
  THEN Selected(Lookup(ws, id), NoErr, idx, MapSet(map, StringOf(id), Lookup(ws, id)))
  ELSE IF /\ id # Undefined
          /\ StringOf(id) \in DOMAIN map
          /\ map[StringOf(id)] \in ws
  THEN Selected(map[StringOf(id)], NoErr, idx, map)
  ELSE roundRobin(Values(ws), idx, map, id)

\* getWorker(id) over the live set ws, cursor idx and sticky map map: the
\* worker returned (0 when it throws), the error thrown, and the cursor and
\* sticky map it leaves behind.
getWorker(ws, idx, map, id) ==
  IF Len(Values(ws)) = 0
  THEN Selected(0, NoWorkers, idx, map)
  ELSE IF id # Undefined /\ Lookup(ws, id) # 0
  THEN Selected(Lookup(ws, id), NoErr, idx, map)
  ELSE IF /\ id # Undefined
          /\ StringOf(id) \in DOMAIN map
          /\ map[StringOf(id)] \in ws
  THEN Selected(map[StringOf(id)], NoErr, idx, map)
  ELSE roundRobin(Values(ws), idx, map, id)

\* a selection that consults the worker set in either role
targetIgnoresRole(primary, ws, idx, map, id) == getWorker(ws, idx, map, id)

\* this.isPrimary ? this.getWorker(workerId) : this.worker
target(primary, ws, idx, map, id) ==
  IF primary
  THEN getWorker(ws, idx, map, id)
  ELSE Selected(Parent, NoErr, idx, map)

\* a hand-off that is put off until after the call has returned
transmitLater(sel, msg, bad) == [out |-> <<>>, error |-> sel.error]

\* worker.send(message) on the selected handle; bad is the set of handles
\* whose hand-off throws.  The call is recorded whether or not it throws.
transmit(sel, msg, bad) ==
  IF sel.error # NoErr
  THEN [out |-> <<>>, error |-> sel.error]
  ELSE [out   |-> <<[to |-> sel.worker, msg |-> msg]>>,
        error |-> IF sel.worker \in bad THEN TransportErr ELSE NoErr]

\* --------------------------------------------------------- request tracker
\* Each operator takes the tracker t = [pendingRequests, timers, promise]
\* and returns the tracker the code leaves behind.

\* new Promise(..): setTimeout(.., requestTimeout); pendingRequests.set(..)
beginRequest(t, requestId) ==
  [pendingRequests |-> t.pendingRequests \cup {requestId},
   timers          |-> t.timers \cup {requestId},
   promise         |-> [t.promise EXCEPT ![requestId] = NewPromise]]

\* a catch block that forgets to delete the entry
failImmediatelyLeak(t, requestId, error) ==
  [pendingRequests |-> t.pendingRequests,
   timers          |-> t.timers \ {requestId},
   promise         |-> [t.promise EXCEPT ![requestId] = Settle(@, "rejected", error)]]

\* a catch block that forgets to disarm the timer
failImmediatelyKeepsTimer(t, requestId, error) ==
  [pendingRequests |-> t.pendingRequests \ {requestId},
   timers          |-> t.timers,
   promise         |-> [t.promise EXCEPT ![requestId] = Settle(@, "rejected", error)]]

\* the catch block of request(): clearTimeout, delete, reject(error)
failImmediately(t, requestId, error) ==
  [pendingRequests |-> t.pendingRequests \ {requestId},
   timers          |-> t.timers \ {requestId},
   promise         |-> [t.promise EXCEPT ![requestId] = Settle(@, "rejected", error)]]

\* a timer callback that rejects without deleting the entry
onTimeoutKeepsEntry(t, requestId) ==
  IF requestId \in t.pendingRequests
  THEN [pendingRequests |-> t.pendingRequests,
        timers          |-> t.timers \ {requestId},
        promise         |-> [t.promise EXCEPT ![requestId] = Settle(@, "rejected", TimeoutErr)]]
  ELSE [t EXCEPT !.timers = @ \ {requestId}]

\* the setTimeout callback of request(): the timer has elapsed
onTimeout(t, requestId) ==
  IF requestId \in t.pendingRequests
  THEN [pendingRequests |-> t.pendingRequests \ {requestId},
        timers          |-> t.timers \ {requestId},
        promise         |-> [t.promise EXCEPT ![requestId] = Settle(@, "rejected", TimeoutErr)]]
  ELSE [t EXCEPT !.timers = @ \ {requestId}]

\* a reply branch that resolves with the envelope's channel
onReplyWrongField(t, msg) ==
  IF msg.requestId \in t.pendingRequests
  THEN [pendingRequests |-> t.pendingRequests \ {msg.requestId},
        timers          |-> t.timers \ {msg.requestId},
        promise         |-> [t.promise EXCEPT ![msg.requestId] = Settle(@, "fulfilled", msg.channel)]]
  ELSE t

\* a reply branch that forgets to delete the entry
onReplyKeepsEntry(t, msg) ==
  IF msg.requestId \in t.pendingRequests
  THEN [pendingRequests |-> t.pendingRequests,
        timers          |-> t.timers \ {msg.requestId},
        promise         |-> [t.promise EXCEPT ![msg.requestId] = Settle(@, "fulfilled", msg.data)]]
  ELSE t

\* a reply branch that leaves the timer armed
onReplyLeavesTimer(t, msg) ==
  IF msg.requestId \in t.pendingRequests
  THEN [pendingRequests |-> t.pendingRequests \ {msg.requestId},
        timers          |-> t.timers,
        promise         |-> [t.promise EXCEPT ![msg.requestId] = Settle(@, "fulfilled", msg.data)]]
  ELSE t

\* the reply branch of handleMessage(): msg.isReply && msg.requestId
onReply(t, msg) ==
  IF msg.requestId \in t.pendingRequests
  THEN [pendingRequests |-> t.pendingRequests \ {msg.requestId},
        timers          |-> t.timers \ {msg.requestId},
        promise         |-> [t.promise EXCEPT ![msg.requestId] = Settle(@, "fulfilled", msg.data)]]
  ELSE t

\* a classification without the reply branch
emitsNoReplyBranch(msg, w) ==
  IF msg.requestId # 0
  THEN <<[type |-> "request", channel |-> msg.channel, data |-> msg.data, worker |-> 0,
          replyFn |-> [channel |-> msg.channel, requestId |-> msg.requestId, workerId |-> w]]>>
  ELSE <<[type |-> "message", channel |-> msg.channel, data |-> msg.data, worker |-> 0,
          replyFn |-> [channel |-> "none", requestId |-> 0, workerId |-> 0]]>>

\* the notifications handleMessage() emits for msg received from worker w:
\* emit('request', channel, data, replyFn) or emit('message', channel, data).
\* The field worker is the worker handle passed to the listeners, 0 when
\* none is passed; replyFn is what the callback closes over.
emits(msg, w) ==
  IF msg.isReply /\ msg.requestId # 0
  THEN <<>>
  ELSE IF msg.requestId # 0
  THEN <<[type |-> "request", channel |-> msg.channel, data |-> msg.data, worker |-> 0,
          replyFn |-> [channel |-> msg.channel, requestId |-> msg.requestId, workerId |-> w]]>>
  ELSE <<[type |-> "message", channel |-> msg.channel, data |-> msg.data, worker |-> 0,
          replyFn |-> [channel |-> "none", requestId |-> 0, workerId |-> 0]]>>

\* the reply callbacks among the notifications of msg
handed(msg, w) ==
  {emits(msg, w)[i].replyFn : i \in {j \in 1..Len(emits(msg, w)) : emits(msg, w)[j].type = "request"}}

\* workers.forEach(worker => worker.send(message)): the calls made, in
\* enumeration order, up to and including the first one that throws
RECURSIVE forEachSend(_, _, _)
forEachSend(list, msg, bad) ==
  IF list = <<>> THEN [out |-> <<>>, error |-> NoErr]
  ELSE IF Head(list) \in bad
  THEN [out |-> <<[to |-> Head(list), msg |-> msg]>>, error |-> TransportErr]
  ELSE LET rest == forEachSend(Tail(list), msg, bad)
       IN [out |-> <<[to |-> Head(list), msg |-> msg]>> \o rest.out, error |-> rest.error]

\* a fan-out that stops after the first worker
forEachSendFirst(list, msg, bad) ==
  IF list = <<>> THEN [out |-> <<>>, error |-> NoErr]
  ELSE [out   |-> <<[to |-> Head(list), msg |-> msg]>>,
        error |-> IF Head(list) \in bad THEN TransportErr ELSE NoErr]

\* the fan-out of publish()
fanOut(list, msg, bad) == forEachSend(list, msg, bad)

\* publish() without its role check
publishAllAnyRole(primary, ws, msg, bad) ==
  IF Len(Values(ws)) # 0
  THEN fanOut(Values(ws), msg, bad)
  ELSE [out |-> <<>>, error |-> NoWorkers]

\* the body of publish(): the role check, then the fan-out or the throw
publishAll(primary, ws, msg, bad) ==
  IF ~primary
  THEN [out |-> <<>>, error |-> PublishRole]
  ELSE IF Len(Values(ws)) # 0
  THEN fanOut(Values(ws), msg, bad)
  ELSE [out |-> <<>>, error |-> NoWorkers]

SetTracker(t) ==
  /\ pendingRequests' = t.pendingRequests
  /\ timers' = t.timers
  /\ promise' = t.promise

\* ---------------------------------------------------------------- actions
send(channel, data, workerId, bad) ==
  LET sel == target(isPrimary, workers, workerIndex, workerMap, workerId)
      tx  == transmit(sel, IpcMessage(channel, data, 0, FALSE), bad)
  IN /\ workerIndex' = sel.workerIndex
     /\ workerMap' = sel.workerMap
     /\ out' = tx.out
     /\ err' = tx.error
     /\ emitted' = <<>>
     /\ delay' = 0
     /\ warned' = <<>>
     /\ op' = Op("send", workerId, 0, FALSE, 0)
     /\ UNCHANGED <<registry, tracker, replyFns>>

publish(channel, data, bad) ==
  LET tx == publishAll(isPrimary, workers, IpcMessage(channel, data, 0, FALSE), bad)
  IN /\ out' = tx.out
     /\ err' = tx.error
     /\ emitted' = <<>>
     /\ delay' = 0
     /\ warned' = <<>>
     /\ op' = Op("publish", Undefined, 0, FALSE, 0)
     /\ UNCHANGED <<registry, routing, tracker, replyFns>>

\* request() runs its promise executor to the end before it returns.  Its
\* requestId is a fresh randomUUID(): ids are only ever compared for
\* equality, so the least id not issued so far stands for it.
request(channel, data, workerId, requestId, bad) ==
  /\ promise[requestId].state = "none"
  /\ \A q \in 1..(requestId - 1) : promise[q].state # "none"
  /\ LET begun == beginRequest(Tracker, requestId)
         sel   == target(isPrimary, workers, workerIndex, workerMap, workerId)
         tx    == transmit(sel, IpcMessage(channel, data, requestId, FALSE), bad)
     IN /\ workerIndex' = sel.workerIndex
        /\ workerMap' = sel.workerMap
        /\ out' = tx.out
        /\ SetTracker(IF tx.error = NoErr THEN begun
                      ELSE failImmediately(begun, requestId, tx.error))
  /\ err' = NoErr
  /\ emitted' = <<>>
  /\ delay' = setTimeout(options.requestTimeout)
  /\ warned' = <<>>
  /\ op' = Op("request", workerId, requestId, FALSE, 0)
  /\ UNCHANGED <<registry, replyFns>>

\* the deadline timer of requestId elapses and its callback runs
timeout(requestId) ==
  /\ requestId \in timers
  /\ SetTracker(onTimeout(Tracker, requestId))
  /\ out' = <<>>
  /\ err' = NoErr
  /\ emitted' = <<>>
  /\ delay' = 0
  /\ warned' = <<>>
  /\ op' = Op("timeout", Undefined, requestId, FALSE, 0)
  /\ UNCHANGED <<registry, routing, replyFns>>

\* a listener that accepts a reply only from the worker its request was
\* handed to
handleMessageFromTarget(msg, w, keep) ==
  /\ IF isPrimary THEN w \in listening ELSE w = Parent
  /\ SetTracker(IF /\ msg.isReply
                   /\ msg.requestId # 0
                   /\ \E i \in 1..Len(trace) : trace[i] = [to |-> w, requestId |-> msg.requestId]
                THEN onReply(Tracker, msg)
                ELSE Tracker)
  /\ emitted' = emits(msg, w)
  /\ replyFns' = replyFns
  /\ out' = <<>>
  /\ err' = NoErr
  /\ delay' = 0
  /\ warned' = <<>>
  /\ op' = Op("handleMessage", Undefined, msg.requestId, msg.isReply, w)
  /\ UNCHANGED <<registry, routing>>

\* an envelope arrives on a handle that carries the router's listener; keep
\* tells whether the consumer holds on to the reply callback it is handed
handleMessage(msg, w, keep) ==
  /\ IF isPrimary THEN w \in listening ELSE w = Parent
  /\ SetTracker(IF msg.isReply /\ msg.requestId # 0 THEN onReply(Tracker, msg) ELSE Tracker)
  /\ emitted' = emits(msg, w)
  /\ replyFns' = IF keep /\ Cardinality(replyFns) < MaxHeld
                 THEN replyFns \cup handed(msg, w)
                 ELSE replyFns
  /\ out' = <<>>
  /\ err' = NoErr
  /\ delay' = 0
  /\ warned' = <<>>
  /\ op' = Op("handleMessage", Undefined, msg.requestId, msg.isReply, w)
  /\ UNCHANGED <<registry, routing>>

\* the consumer calls a reply callback it was handed: reply(channel, data,
\* requestId, worker.id) with the values the callback closed over
reply(fn, data, bad) ==
  /\ fn \in replyFns
  /\ LET msg == IpcMessage(fn.channel, data, fn.requestId, TRUE)
         sel == target(isPrimary, workers, workerIndex, workerMap,
                       IF isPrimary THEN Digits[fn.workerId] ELSE Undefined)
         tx  == transmit(sel, msg, bad)
     IN /\ workerIndex' = sel.workerIndex
        /\ workerMap' = sel.workerMap
        /\ out' = tx.out
        /\ err' = tx.error
  /\ op' = Op("reply", Undefined, fn.requestId, TRUE, fn.workerId)
  /\ emitted' = <<>>
  /\ delay' = 0
  /\ warned' = <<>>
  /\ UNCHANGED <<registry, tracker, replyFns>>

\* ------------------------------------- the legacy class ClusterIPC (src/)
\* The earlier class of the package: send, publish and 'message' only.  It
\* has the same cursor and sticky map, and warns where ClusterIpc throws.
WarnSend    == "[ClusterIPC] No workers available to send the message"
WarnPublish == "[ClusterIPC] No workers available to publish the message"

Chosen(worker, error, idx, map, warnings) ==
  [worker |-> worker, error |-> error, workerIndex |-> idx, workerMap |-> map,
   warned |-> warnings]

\* a legacy selection that throws when there is no worker
ClusterIPC_getWorkerThrows(ws, idx, map, id) ==
  LET sel == getWorker(ws, idx, map, id)
  IN Chosen(sel.worker, sel.error, sel.workerIndex, sel.workerMap, <<>>)

\* ClusterIPC.getWorker(id): with no worker it warns and returns undefined
\* (worker 0); the rest is the text of ClusterIpc.getWorker
ClusterIPC_getWorker(ws, idx, map, id) ==
  IF Len(Values(ws)) = 0
  THEN Chosen(0, NoErr, idx, map, <<WarnSend>>)
  ELSE IF id # Undefined /\ Lookup(ws, id) # 0
  THEN Chosen(Lookup(ws, id), NoErr, idx, map, <<>>)
  ELSE IF /\ id # Undefined
          /\ StringOf(id) \in DOMAIN map
          /\ map[StringOf(id)] \in ws
  THEN Chosen(map[StringOf(id)], NoErr, idx, map, <<>>)
  ELSE LET rr == roundRobin(Values(ws), idx, map, id)
       IN Chosen(rr.worker, rr.error, rr.workerIndex, rr.workerMap, <<>>)

\* ClusterIPC.send(channel, data, workerId)
ClusterIPC_send(channel, data, workerId, bad) ==
  LET sel == IF isPrimary
             THEN ClusterIPC_getWorker(workers, workerIndex, workerMap, workerId)
             ELSE Chosen(Parent, NoErr, workerIndex, workerMap, <<>>)
      msg == IpcMessage(channel, data, 0, FALSE)
      tx  == IF isPrimary /\ sel.error = NoErr /\ sel.worker = 0
             THEN [out |-> <<>>, error |-> NoErr]
             ELSE transmit(sel, msg, bad)
  IN /\ workerIndex' = sel.workerIndex
     /\ workerMap' = sel.workerMap
     /\ out' = tx.out
     /\ err' = tx.error
     /\ warned' = sel.warned
     /\ emitted' = <<>>
     /\ delay' = 0
     /\ op' = Op("ClusterIPC.send", workerId, 0, FALSE, 0)
     /\ UNCHANGED <<registry, tracker, replyFns>>

\* ClusterIPC.publish(channel, data)
ClusterIPC_publish(channel, data, bad) ==
  LET msg == IpcMessage(channel, data, 0, FALSE)
      tx  == IF ~isPrimary THEN [out |-> <<>>, error |-> PublishRole]
             ELSE IF Len(Values(workers)) # 0 THEN forEachSend(Values(workers), msg, bad)
             ELSE [out |-> <<>>, error |-> NoErr]
  IN /\ out' = tx.out
     /\ err' = tx.error
     /\ warned' = IF isPrimary /\ Len(Values(workers)) = 0 THEN <<WarnPublish>> ELSE <<>>
     /\ emitted' = <<>>
     /\ delay' = 0
     /\ op' = Op("ClusterIPC.publish", Undefined, 0, FALSE, 0)
     /\ UNCHANGED <<registry, routing, tracker, replyFns>>

\* the 'message' listeners of ClusterIPC.setupPrimary and setupWorker: the
\* primary passes the sending worker on, a worker process does not
ClusterIPC_onMessage(msg, w) ==
  /\ IF isPrimary THEN w \in listening ELSE w = Parent
  /\ emitted' = <<[type |-> "message", channel |-> msg.channel, data |-> msg.data,
                   worker |-> IF isPrimary THEN w ELSE 0,
                   replyFn |-> [channel |-> "none", requestId |-> 0, workerId |-> 0]]>>
  /\ out' = <<>>
  /\ err' = NoErr
  /\ warned' = <<>>
  /\ delay' = 0
  /\ op' = Op("ClusterIPC.message", Undefined, msg.requestId, msg.isReply, w)
  /\ UNCHANGED <<registry, routing, tracker, replyFns>>

\* ------------------------------------------------- the cluster's worker set
Quiet(name, w) ==
  /\ out' = <<>>
  /\ err' = NoErr
  /\ emitted' = <<>>
  /\ delay' = 0
  /\ warned' = <<>>
  /\ op' = Op(name, Undefined, 0, FALSE, w)

\* cluster.fork(): a child joins cluster.workers under the next unused id
fork ==
  /\ isPrimary
  /\ forked < MaxWorkers
  /\ forked' = forked + 1
  /\ workers' = workers \cup {forked + 1}
  /\ Quiet("fork", forked + 1)
  /\ UNCHANGED <<isPrimary, listening, onlineBefore, argument, options, routing, tracker, replyFns>>

\* cluster emits 'online' for w: setupPrimary's callback attaches the listener
setupPrimary(w) ==
  /\ isPrimary
  /\ w \in workers \ (listening \cup onlineBefore)
  /\ listening' = listening \cup {w}
  /\ Quiet("online", w)
  /\ UNCHANGED <<isPrimary, workers, forked, onlineBefore, argument, options, routing, tracker, replyFns>>

\* w disconnects or exits: the cluster removes it from cluster.workers
exit(w) ==
  /\ isPrimary
  /\ w \in workers
  /\ workers' = workers \ {w}
  /\ listening' = listening \ {w}
  /\ onlineBefore' = onlineBefore \ {w}
  /\ Quiet("exit", w)
  /\ UNCHANGED <<isPrimary, forked, argument, options, routing, tracker, replyFns>>

\* ---------------------------------------------------------- specifications
\* the fields' initialisers: the state a constructor leaves behind
Constructed ==
  /\ listening = {}
  /\ workerIndex = 0
  /\ workerMap = EmptyMap
  /\ pendingRequests = {}
  /\ timers = {}
  /\ promise = [r \in ReqIds |-> NoPromise]
  /\ replyFns = {}
  /\ op = Op("init", Undefined, 0, FALSE, 0)
  /\ out = <<>>
  /\ err = NoErr
  /\ emitted = <<>>
  /\ delay = 0
  /\ warned = <<>>
  /\ trace = <<>>
  /\ chosen = EmptyMap

\* the process around a new router: either role, and any worker set the
\* cluster may already hold; the workers in onlineBefore have had their
\* 'online' event
Process ==
  /\ isPrimary \in BOOLEAN
  /\ forked \in (IF isPrimary THEN 0..MaxWorkers ELSE {0})
  /\ workers \in SUBSET (1..forked)
  /\ onlineBefore \in SUBSET workers

\* new ClusterIpc(arg)
ConstructedWith(arg) ==
  /\ argument = arg
  /\ options = constructor(arg)
  /\ Constructed

\* new ClusterIpc(): construction without an options argument
Init ==
  /\ Process
  /\ ConstructedWith(NoArgument)

\* the history variables are not followed
NoHistory == UNCHANGED <<trace, chosen>>

\* --- SpecRR: a fixed, non-empty live set, cursor 0, and nothing but send()
\* calls that give no workerId; trace records the target of each call
InitRR ==
  /\ isPrimary = TRUE
  /\ forked = RRWorkers
  /\ workers \in SUBSET (1..RRWorkers) \ {{}}
  /\ onlineBefore = workers
  /\ ConstructedWith(NoArgument)

NextRR ==
  \E c \in Channels, d \in Payloads :
    /\ Len(trace) < MaxCalls
    /\ send(c, d, Undefined, {})
    /\ trace' = trace \o [i \in 1..Len(out') |-> out'[i].to]
    /\ UNCHANGED chosen

SpecRR == InitRR /\ [][NextRR]_vars

\* --- SpecRouting: the dispatcher under joins and leaves: send() with every
\* kind of workerId, publish(), fork and exit, in either role.  The
\* transport accepts every hand-off.
InitRouting ==
  /\ Init
  /\ onlineBefore = workers

\* chosen after a step: entries whose child left are dropped; a call with an
\* explicit key that has no entry records the child it was sent to
Remember ==
  LET live == {k \in DOMAIN chosen : chosen[k] \in workers'}
      kept == [k \in live |-> chosen[k]]
  IN /\ chosen' = IF /\ op'.name \in {"send", "request"}
                     /\ op'.id # Undefined
                     /\ op'.id \notin live
                     /\ out' # <<>>
                     /\ out'[1].to \in workers'
                  THEN MapSet(kept, op'.id, out'[1].to)
                  ELSE kept
     /\ UNCHANGED trace

NextRouting ==
  \/ \E id \in Hints : send("c1", "p1", id, {}) /\ Remember
  \/ \E c \in Channels, d \in Payloads : publish(c, d, {}) /\ Remember
  \/ fork /\ Remember
  \/ \E w \in WorkerIds : exit(w) /\ Remember

SpecRouting == InitRouting /\ [][NextRouting]_vars

\* --- SpecSticky: as SpecRouting, with the calls that give a custom key
\* (one that is no worker's identity) or no workerId at all
CustomKeys == {"foo", "undefined"}

NextSticky ==
  \/ \E c \in Channels, d \in Payloads, id \in CustomKeys \cup {Undefined} :
       send(c, d, id, {}) /\ Remember
  \/ fork /\ Remember
  \/ \E w \in WorkerIds : exit(w) /\ Remember

SpecSticky == InitRouting /\ [][NextSticky]_vars

\* --- SpecTracker: the request tracker: request() and send() without
\* workerId, timer expiry, inbound replies with every requestId and payload
\* (and one plain message and one request) from every listening handle, and workers joining, coming online and leaving.
TrackerInbound ==
  {m \in Messages : m.isReply \/ (m.channel = "c1" /\ m.data = "p1" /\ m.requestId <= 1)}

NextTracker ==
  \/ \E r \in ReqIds : request("c1", "p1", Undefined, r, {}) /\ NoHistory
  \/ send("c1", "p1", Undefined, {}) /\ NoHistory
  \/ \E r \in ReqIds : timeout(r) /\ NoHistory
  \/ \E m \in TrackerInbound, w \in WorkerIds \cup {Parent} :
       handleMessage(m, w, FALSE) /\ NoHistory
  \/ fork /\ NoHistory
  \/ \E w \in WorkerIds : setupPrimary(w) /\ NoHistory
  \/ \E w \in WorkerIds : exit(w) /\ NoHistory

SpecTracker == Init /\ [][NextTracker]_vars

\* the timers of the event loop fire: an armed deadline eventually elapses
FairTracker == SpecTracker /\ \A r \in ReqIds : WF_vars(timeout(r) /\ NoHistory)

\* --- SpecReply: inbound envelopes of every kind, the consumer keeping or
\* dropping the reply callback it is handed and calling a kept one at any
\* later time, and workers joining, coming online and leaving.
NextReply ==
  \/ \E m \in Messages, w \in WorkerIds \cup {Parent}, keep \in BOOLEAN :
       handleMessage(m, w, keep) /\ NoHistory
  \/ \E fn \in replyFns, d \in Payloads : reply(fn, d, {}) /\ NoHistory
  \/ fork /\ NoHistory
  \/ \E w \in WorkerIds : setupPrimary(w) /\ NoHistory
  \/ \E w \in WorkerIds : exit(w) /\ NoHistory

SpecReply == Init /\ [][NextReply]_vars

\* --- SpecChild: a router in the worker role: every operation, with every
\* kind of workerId
InitChild ==
  /\ Init
  /\ ~isPrimary

NextChild ==
  \/ \E id \in Hints : send("c1", "p1", id, {}) /\ NoHistory
  \/ \E id \in Hints, r \in ReqIds : request("c1", "p1", id, r, {}) /\ NoHistory
  \/ publish("c1", "p1", {}) /\ NoHistory
  \/ \E r \in ReqIds : timeout(r) /\ NoHistory
  \/ \E m \in Messages, keep \in BOOLEAN : handleMessage(m, Parent, keep) /\ NoHistory
  \/ \E fn \in replyFns, d \in Payloads : reply(fn, d, {}) /\ NoHistory

SpecChild == InitChild /\ [][NextChild]_vars

\* --- SpecLegacy: a router of the legacy class under joins and leaves
NextLegacy ==
  \/ \E id \in Hints : ClusterIPC_send("c1", "p1", id, {}) /\ NoHistory
  \/ \E c \in Channels, d \in Payloads : ClusterIPC_publish(c, d, {}) /\ NoHistory
  \/ \E w \in WorkerIds \cup {Parent} :
       ClusterIPC_onMessage(IpcMessage("c1", "p1", 0, FALSE), w) /\ NoHistory
  \/ fork /\ NoHistory
  \/ \E w \in WorkerIds : setupPrimary(w) /\ NoHistory
  \/ \E w \in WorkerIds : exit(w) /\ NoHistory

SpecLegacy == Init /\ [][NextLegacy]_vars

\* --- SpecFailure: request() and publish() over a transport on which the
\* hand-off to at most one handle throws, with timers, replies, joins and
\* leaves
BadSets == {{}} \cup {{h} : h \in WorkerIds \cup {Parent}}

NextFailure ==
  \/ \E r \in ReqIds, bad \in BadSets : request("c1", "p1", Undefined, r, bad) /\ NoHistory
  \/ \E bad \in BadSets : publish("c1", "p1", bad) /\ NoHistory
  \/ \E r \in ReqIds : timeout(r) /\ NoHistory
  \/ \E r \in ReqIds, w \in WorkerIds \cup {Parent} :
       handleMessage(IpcMessage("c1", "p1", r, TRUE), w, FALSE) /\ NoHistory
  \/ fork /\ NoHistory
  \/ \E w \in WorkerIds : setupPrimary(w) /\ NoHistory
  \/ \E w \in WorkerIds : exit(w) /\ NoHistory

SpecFailure == Init /\ [][NextFailure]_vars

\* --- SpecHandoffs: send() and request() calls, with and without workerId,
\* their timers and replies from every listening handle, over any worker
\* set that stays as it is while its workers come online; trace records
\* every hand-off, in the order the handles received them
Handoffs ==
  /\ trace' = trace \o [i \in 1..Len(out') |->
                          [to |-> out'[i].to, requestId |-> out'[i].msg.requestId]]
  /\ UNCHANGED chosen

NextHandoffs ==
  \/ \E id \in {Undefined, "1"} :
       Len(trace) < MaxHandoffs /\ send("c1", "p1", id, {}) /\ Handoffs
  \/ \E id \in {Undefined, "1"}, r \in ReqIds : request("c1", "p1", id, r, {}) /\ Handoffs
  \/ \E r \in ReqIds : timeout(r) /\ Handoffs
  \/ \E r \in ReqIds, w \in WorkerIds \cup {Parent} :
       handleMessage(IpcMessage("c1", "p1", r, TRUE), w, FALSE) /\ Handoffs
  \/ \E w \in WorkerIds : setupPrimary(w) /\ Handoffs

SpecHandoffs == Init /\ [][NextHandoffs]_vars

\* --- SpecOptions: construction with every kind of argument, then
\* request() calls, their timers and their replies
InitOptions ==
  /\ Process
  /\ \E arg \in OptionArgs : ConstructedWith(arg)

NextOptions ==
  \/ \E r \in ReqIds : request("c1", "p1", Undefined, r, {}) /\ NoHistory
  \/ \E r \in ReqIds : timeout(r) /\ NoHistory
  \/ \E r \in ReqIds, w \in WorkerIds \cup {Parent} :
       handleMessage(IpcMessage("c1", "p1", r, TRUE), w, FALSE) /\ NoHistory
  \/ fork /\ NoHistory
  \/ \E w \in WorkerIds : setupPrimary(w) /\ NoHistory
  \/ \E w \in WorkerIds : exit(w) /\ NoHistory

SpecOptions == InitOptions /\ [][NextOptions]_vars

\* ------------------------------------------------------------------ claims
Position(ws, i) == Values(ws)[(i % Cardinality(ws)) + 1]

\* C1: over a fixed live set of size K >= 1 and from cursor 0, the i-th
\* send() without workerId (counting from 0) transmits to the child at
\* enumeration position i mod K, so any K consecutive calls reach every
\* live child once.
C1_RoundRobinOrder ==
  /\ \A i \in 1..Len(trace) : trace[i] = Position(workers, i - 1)
  /\ \A i \in 1..Len(trace) :
       i + Cardinality(workers) - 1 <= Len(trace)
         => {trace[j] : j \in i..(i + Cardinality(workers) - 1)} = workers
  /\ op.name = "send" => Len(out) = 1 /\ err = NoErr

C1_Witness ==
  /\ Cardinality(workers) >= 2
  /\ Len(trace) > Cardinality(workers) + 1
  /\ op.name = "send"

\* C2: once a call with explicit target k has selected child c, every later
\* call with explicit target k selects c for as long as c has stayed live.
C2_StickyKeepsChild ==
  [][(/\ op'.name \in {"send", "request"}
      /\ op'.id # Undefined
      /\ op'.id \in DOMAIN chosen
      /\ chosen[op'.id] \in workers
      /\ out' # <<>>)
     => out'[1].to = chosen[op'.id]]_vars

\* C8: in the parent role publish(channel, payload) hands the one plain
\* envelope {channel, payload} exactly once to every live child and to
\* nothing else; with no live child it throws 'No workers available' and
\* hands over nothing.
C8_PublishReachesAll ==
  [][\A c \in Channels, d \in Payloads :
       (isPrimary /\ op'.name = "publish" /\ publish(c, d, {})) =>
         IF workers = {}
         THEN err' = NoWorkers /\ out' = <<>>
         ELSE /\ err' = NoErr
              /\ \A w \in workers : Cardinality({i \in 1..Len(out') : out'[i].to = w}) = 1
              /\ \A i \in 1..Len(out') :
                   /\ out'[i].to \in workers
                   /\ out'[i].msg = IpcMessage(c, d, 0, FALSE)]_vars

C8_Witness ==
  /\ op.name = "publish"
  /\ isPrimary
  /\ Cardinality(workers) >= 2
  /\ Len(out) = Cardinality(workers)

\* C9: in the child role publish() always throws the role error, hands over
\* no envelope and changes no state.
C9_PublishFromChild ==
  [][\A c \in Channels, d \in Payloads :
       (~isPrimary /\ op'.name = "publish" /\ publish(c, d, {})) =>
         /\ err' = PublishRole
         /\ out' = <<>>
         /\ emitted' = <<>>
         /\ UNCHANGED <<registry, routing, tracker, replyFns>>]_vars

C9_Witness ==
  /\ op.name = "publish"
  /\ ~isPrimary
  /\ err = PublishRole

Settled(r) == promise[r].state \in {"fulfilled", "rejected"}

\* C3: a pending request is resolved by the inbound reply that carries its
\* requestId, with that reply's payload and with its entry already removed;
\* an inbound envelope touches no other request, and a promise is fulfilled
\* by nothing but its own reply.
C3_ResolvesWithOwnReply ==
  [][/\ op'.name = "handleMessage" =>
          IF op'.isReply /\ op'.requestId \in pendingRequests
          THEN /\ \A c \in Channels, d \in Payloads, keep \in BOOLEAN :
                    handleMessage(IpcMessage(c, d, op'.requestId, TRUE), op'.worker, keep) =>
                      /\ promise'[op'.requestId].state = "fulfilled"
                      /\ promise'[op'.requestId].value = d
                      /\ op'.requestId \notin pendingRequests'
               /\ \A r \in ReqIds \ {op'.requestId} : promise'[r] = promise[r]
          ELSE promise' = promise
     /\ \A r \in ReqIds :
          (promise[r].state # "fulfilled" /\ promise'[r].state = "fulfilled") =>
            /\ op'.name = "handleMessage"
            /\ op'.isReply
            /\ op'.requestId = r
            /\ r \in pendingRequests]_vars

C3_Witness ==
  /\ op.name = "handleMessage"
  /\ op.isReply
  /\ op.requestId \in ReqIds
  /\ promise[op.requestId].state = "fulfilled"
  /\ \E r \in ReqIds : r # op.requestId /\ r \in pendingRequests

\* C4: the resolve/reject functions of a request are invoked at most once
\* over its life, whatever the order of replies, timer expiries and
\* synchronous failures, and a settled request has no entry left for
\* another path to find.
C4_SettledAtMostOnce ==
  \A r \in ReqIds :
    /\ promise[r].calls <= 1
    /\ Settled(r) <=> promise[r].calls = 1
    /\ Settled(r) => r \notin pendingRequests

C4_Witness ==
  /\ op.name = "handleMessage"
  /\ op.isReply
  /\ op.requestId \in ReqIds
  /\ promise[op.requestId] = [state |-> "rejected", value |-> TimeoutErr, calls |-> 1]

\* C5: a request that is in the pending table is eventually out of it and
\* settled: fulfilled (by its reply) or else rejected with 'Request timeout'.
C5_TimesOut ==
  \A r \in ReqIds :
    (r \in pendingRequests) ~>
      (/\ r \notin pendingRequests
       /\ \/ promise[r].state = "fulfilled"
          \/ promise[r].state = "rejected" /\ promise[r].value = TimeoutErr)

C5_Witness ==
  /\ op.name = "timeout"
  /\ op.requestId \in ReqIds
  /\ promise[op.requestId].state = "rejected"
  /\ promise[op.requestId].value = TimeoutErr
  /\ op.requestId \notin pendingRequests

\* C6: an inbound reply whose requestId has no pending entry throws nothing,
\* settles nothing, emits nothing and leaves the pending table, the timers,
\* the cursor and the sticky map as they were.
C6_UnknownReplyIsNoOp ==
  [][(/\ op'.name = "handleMessage"
      /\ op'.isReply
      /\ op'.requestId # 0
      /\ op'.requestId \notin pendingRequests) =>
       /\ err' = NoErr
       /\ emitted' = <<>>
       /\ out' = <<>>
       /\ UNCHANGED <<tracker, routing, registry, replyFns>>]_vars

C6_Witness ==
  /\ op.name = "handleMessage"
  /\ op.isReply
  /\ op.requestId \in ReqIds
  /\ promise[op.requestId].state = "rejected"
  /\ \E r \in ReqIds : r \in pendingRequests

\* C7: in the parent role with no live child, send() throws 'No workers
\* available' and request() returns a promise rejected with it; neither
\* hands over an envelope, and the failed request leaves no pending entry
\* and no armed timer.
C7_NoWorkers ==
  (isPrimary /\ workers = {}) =>
    /\ op.name = "send" => err = NoWorkers /\ out = <<>>
    /\ op.name = "request" =>
         /\ err = NoErr
         /\ out = <<>>
         /\ promise[op.requestId].state = "rejected"
         /\ promise[op.requestId].value = NoWorkers
         /\ op.requestId \notin pendingRequests
         /\ op.requestId \notin timers

C7_Witness ==
  /\ op.name = "request"
  /\ isPrimary
  /\ workers = {}
  /\ promise[op.requestId].state = "rejected"
  /\ promise[op.requestId].value = NoWorkers

\* C10: an inbound envelope with a requestId that is no reply emits exactly
\* one 'request' notification (channel, payload, replyFn) and no 'message';
\* every call replyFn(v) hands over one envelope with isReply set, the
\* request's requestId and channel, and payload v.
C10_RequestAndReply ==
  [][/\ (op'.name = "handleMessage" /\ op'.requestId # 0 /\ ~op'.isReply) =>
          \A m \in {x \in Messages : x.requestId = op'.requestId /\ ~x.isReply},
             keep \in BOOLEAN :
            handleMessage(m, op'.worker, keep) =>
              /\ Len(emitted') = 1
              /\ emitted'[1].type = "request"
              /\ emitted'[1].channel = m.channel
              /\ emitted'[1].data = m.data
              /\ emitted'[1].replyFn.requestId = m.requestId
     /\ op'.name = "reply" =>
          \A fn \in replyFns, v \in Payloads :
            reply(fn, v, {}) =>
              /\ Len(out') = 1
              /\ out'[1].msg = IpcMessage(fn.channel, v, fn.requestId, TRUE)]_vars

\* C11: in the parent role every envelope a reply callback hands over goes
\* to the child the request came from, whatever joins, leaves and other
\* selections happened since; no other child receives it.
C11_ReplyToRequester ==
  [][(op'.name = "reply" /\ isPrimary) =>
       \A i \in 1..Len(out') : out'[i].to = op'.worker]_vars

\* C12: an inbound envelope without requestId that is no reply emits exactly
\* one 'message' notification with the envelope's channel and payload and,
\* in the parent role, the child the envelope came from.
C12_MessageCarriesSender ==
  [][(op'.name = "handleMessage" /\ op'.requestId = 0 /\ ~op'.isReply) =>
       /\ Len(emitted') = 1
       /\ emitted'[1].type = "message"
       /\ \E m \in Messages :
            /\ m.requestId = 0 /\ ~m.isReply
            /\ emitted'[1].channel = m.channel
            /\ emitted'[1].data = m.data
       /\ isPrimary => emitted'[1].worker = op'.worker]_vars

\* C13: the deadline request() arms is the requestTimeout the caller
\* supplied, and 5000 ms when none was supplied: with no options argument
\* and with an options object that has no requestTimeout alike.
C13_DefaultTimeout ==
  [][op'.name = "request" =>
       delay' = IF argument.given /\ argument.requestTimeout # NoValue
                THEN argument.requestTimeout
                ELSE 5000]_vars

\* C14: in the child role every send(), request() and reply callback hands
\* its one envelope to the parent handle and throws nothing, whatever
\* workerId is given, and no step changes the cursor or the sticky map.
C14_ChildSendsToParent ==
  [][~isPrimary =>
       /\ op'.name \in {"send", "request", "reply"} =>
            /\ Len(out') = 1
            /\ out'[1].to = Parent
            /\ out'[1].msg.requestId = op'.requestId
            /\ out'[1].msg.isReply = op'.isReply
            /\ err' = NoErr
            /\ op'.name = "request" => promise'[op'.requestId].state = "pending"
       /\ UNCHANGED routing
       /\ workerIndex = 0
       /\ workerMap = EmptyMap]_vars

C14_Witness ==
  /\ ~isPrimary
  /\ op.name = "request"
  /\ op.id = "foo"
  /\ out = <<[to |-> Parent, msg |-> IpcMessage("c1", "p1", op.requestId, FALSE)]>>
  /\ replyFns # {}
  /\ workerMap = EmptyMap

\* C15: in the legacy class, send() and publish() in the parent role with
\* no live worker throw nothing, log one warning each, hand over nothing
\* and leave the cursor and the sticky map unchanged.
C15_LegacyWarns ==
  [][(/\ isPrimary
      /\ workers = {}
      /\ op'.name \in {"ClusterIPC.send", "ClusterIPC.publish"}) =>
       /\ err' = NoErr
       /\ out' = <<>>
       /\ warned' = <<IF op'.name = "ClusterIPC.send" THEN WarnSend ELSE WarnPublish>>
       /\ UNCHANGED routing]_vars

C15_Witness ==
  /\ op.name = "ClusterIPC.send"
  /\ isPrimary
  /\ workers = {}
  /\ warned = <<WarnSend>>
  /\ workerMap # EmptyMap

\* C16: whenever the live set is non-empty, a selection made by send() or
\* request() in the parent role throws nothing and hands the envelope to
\* one child that is live at that moment, whatever joins and leaves
\* happened between the calls.
C16_SelectionNeverFails ==
  [][(/\ isPrimary
      /\ workers # {}
      /\ op'.name \in {"send", "request"}) =>
       /\ err' = NoErr
       /\ Len(out') = 1
       /\ out'[1].to \in workers]_vars

\* the explicit key id is satisfied by a live child of that identity or by
\* a live child remembered for it
Satisfied(id) ==
  /\ id # Undefined
  /\ \/ Lookup(workers, id) # 0
     \/ id \in DOMAIN workerMap /\ workerMap[id] \in workers

\* C17: a call with explicit target k, when no live child has identity k and
\* no live child is remembered for k, returns the live child at the cursor,
\* advances the cursor by one modulo the live count and records that
\* child, live at that moment, as stickyMap[k].
C17_FallsBackToRoundRobin ==
  [][(/\ isPrimary
      /\ workers # {}
      /\ op'.name \in {"send", "request"}
      /\ op'.id # Undefined
      /\ ~Satisfied(op'.id)) =>
       /\ workerIndex < Cardinality(workers)
       /\ Len(out') = 1
       /\ out'[1].to = Values(workers)[workerIndex + 1]
       /\ out'[1].to \in workers
       /\ workerIndex' = (workerIndex + 1) % Cardinality(workers)
       /\ workerMap' = MapSet(workerMap, op'.id, out'[1].to)]_vars

\* C18: a selection satisfied by the explicit identity of a live child, or
\* by a sticky key whose remembered child is live, hands the envelope to
\* that child and changes neither the cursor nor the sticky map; whatever
\* changes either of them is a selection that was not so satisfied.
C18_HitsAreReadOnly ==
  [][/\ (/\ isPrimary
         /\ workers # {}
         /\ op'.name \in {"send", "request"}
         /\ Satisfied(op'.id)) =>
          /\ UNCHANGED routing
          /\ err' = NoErr
          /\ Len(out') = 1
          /\ out'[1].to = IF Lookup(workers, op'.id) # 0
                          THEN Lookup(workers, op'.id)
                          ELSE workerMap[op'.id]
     /\ routing' # routing =>
          /\ isPrimary
          /\ op'.name \in {"send", "request"}
          /\ ~Satisfied(op'.id)]_vars

C18_Witness ==
  /\ op.name = "send"
  /\ op.id = "foo"
  /\ isPrimary
  /\ workers = {1, 2}
  /\ workerIndex = 0
  /\ "foo" \in DOMAIN workerMap
  /\ workerMap["foo"] = 1
  /\ Len(out) = 1
  /\ out[1].to = 1

\* C19: a send() or request() that gives no workerId leaves the sticky map
\* as it was: entries are written only under keys that callers supplied.
C19_NoKeyNoEntry ==
  [][(op'.name \in {"send", "request"} /\ op'.id = Undefined) =>
       workerMap' = workerMap]_vars

\* C20: at every state the armed deadline timers are exactly those of the
\* requests in the pending table, and a timer that fires belongs to a
\* request that is pending and unsettled: after a matching reply or a
\* synchronous send failure the timer of that request never fires.
C20_TimerIffPending ==
  /\ [](timers = pendingRequests)
  /\ [][op'.name = "timeout" =>
          /\ op'.requestId \in pendingRequests
          /\ promise[op'.requestId].state = "pending"
          /\ op'.requestId \notin timers']_vars

C20_Witness ==
  /\ op.name = "handleMessage"
  /\ op.isReply
  /\ op.requestId \in ReqIds
  /\ promise[op.requestId].state = "fulfilled"
  /\ op.requestId \notin timers
  /\ \E r \in ReqIds : promise[r].state = "rejected" /\ promise[r].value = NoWorkers

\* C21: when the selection or the hand-off of request() fails, whatever the
\* failure (no worker, no worker at the cursor, a throwing transport), the
\* promise is rejected with that failure and the request has neither a
\* pending entry nor an armed timer when request() returns; a request that
\* was rejected is never settled again by a reply or a timer.
C21_FailedRequestLeavesNothing ==
  [][/\ op'.name = "request" =>
          \A bad \in BadSets :
            request("c1", "p1", op'.id, op'.requestId, bad) =>
              IF out' # <<>> /\ out'[1].to \notin bad
              THEN /\ promise'[op'.requestId].state = "pending"
                   /\ op'.requestId \in pendingRequests'
              ELSE /\ promise'[op'.requestId].state = "rejected"
                   /\ promise'[op'.requestId].value =
                        IF out' # <<>> THEN TransportErr
                        ELSE IF workers = {} THEN NoWorkers
                        ELSE TypeErr
                   /\ promise'[op'.requestId].calls = 1
                   /\ op'.requestId \notin pendingRequests'
                   /\ op'.requestId \notin timers'
                   /\ err' = NoErr
     /\ \A r \in ReqIds :
          promise[r].state = "rejected" =>
            /\ promise'[r] = promise[r]
            /\ r \notin pendingRequests'
            /\ r \notin timers']_vars

C21_Witness ==
  /\ op.name = "request"
  /\ workers # {}
  /\ out = <<>>
  /\ promise[op.requestId].state = "rejected"
  /\ promise[op.requestId].value = TypeErr
  /\ op.requestId \notin pendingRequests
  /\ op.requestId \notin timers
  /\ \E r \in ReqIds : r \in pendingRequests

\* C22: publish() over two or more live children attempts the hand-off to
\* every one of them, whether or not the hand-off to another one throws.
C22_PublishAttemptsAll ==
  [][(/\ isPrimary
      /\ op'.name = "publish"
      /\ Cardinality(workers) >= 2) =>
       \A w \in workers : \E i \in 1..Len(out') : out'[i].to = w]_vars

\* C23: an inbound envelope with isReply set emits no notification, with or
\* without a requestId and whether or not the requestId is pending; an
\* inbound envelope without isReply leaves the request tracker as it was.
C23_RepliesOnlyResolve ==
  [][op'.name = "handleMessage" =>
       /\ op'.isReply => emitted' = <<>>
       /\ ~op'.isReply => UNCHANGED tracker]_vars

\* w has had its 'online' event, before or after the router was constructed
Online(w) == w \in onlineBefore \/ w \in listening

\* C24: in the parent role every online child that send() or request() hands
\* an envelope to carries the router's listener, so that what it sends back
\* is handled; children that were online before the router was constructed
\* included.
C24_TargetsAreListenedTo ==
  [][(isPrimary /\ op'.name \in {"send", "request"}) =>
       \A i \in 1..Len(out') :
         Online(out'[i].to) => out'[i].to \in listening]_vars

\* C25: a send() that returns normally and a request() that returns a
\* pending promise have handed their one envelope to the target during the
\* call, as the latest hand-off so far; no other step hands over anything;
\* so every handle receives the request envelopes addressed to it in the
\* order of the calls (the order in which their requestIds were issued),
\* and each such envelope once.
C25_HandedOverInCallOrder ==
  /\ [][/\ (op'.name = "send" /\ err' = NoErr) =>
             /\ Len(out') = 1
             /\ out'[1].msg.requestId = 0
             /\ trace' = Append(trace, [to |-> out'[1].to, requestId |-> 0])
        /\ (op'.name = "request" /\ promise'[op'.requestId].state = "pending") =>
             /\ Len(out') = 1
             /\ out'[1].msg.requestId = op'.requestId
             /\ trace' = Append(trace, [to |-> out'[1].to, requestId |-> op'.requestId])
        /\ out' # <<>> => op'.name \in {"send", "request"}]_vars
  /\ [](/\ \A i, j \in 1..Len(trace) :
             (i < j /\ trace[i].to = trace[j].to
                /\ trace[i].requestId # 0 /\ trace[j].requestId # 0)
               => trace[i].requestId < trace[j].requestId
        /\ \A r \in ReqIds :
             (promise[r].state \in {"pending", "fulfilled"}
                \/ (promise[r].state = "rejected" /\ promise[r].value = TimeoutErr))
               => Cardinality({i \in 1..Len(trace) : trace[i].requestId = r}) = 1)

C25_Witness ==
  /\ Len(trace) >= 3
  /\ trace[1].to = trace[3].to
  /\ trace[1].requestId = 1
  /\ trace[2].requestId = 0
  /\ trace[3].requestId = 2
  /\ op.name = "request"

\* C26: an inbound reply that carries the requestId of a pending request
\* resolves it and removes its entry and timer, whichever listening handle
\* the reply arrived on and whichever handle the request was handed to; a
\* further reply with that requestId changes nothing.
C26_AnySourceResolves ==
  [][(op'.name = "handleMessage" /\ op'.isReply /\ op'.requestId # 0) =>
       IF op'.requestId \in pendingRequests
       THEN /\ promise'[op'.requestId].state = "fulfilled"
            /\ promise'[op'.requestId].value = "p1"
            /\ pendingRequests' = pendingRequests \ {op'.requestId}
            /\ timers' = timers \ {op'.requestId}
       ELSE UNCHANGED tracker]_vars

C26_Witness ==
  /\ isPrimary
  /\ op.name = "handleMessage"
  /\ op.isReply
  /\ op.requestId \in ReqIds
  /\ promise[op.requestId].state = "fulfilled"
  /\ \E i \in 1..Len(trace) :
       trace[i].requestId = op.requestId /\ trace[i].to # op.worker
====
